---------------------------- MODULE Spec2Model ----------------------------
(***************************************************************************)
(* Model of seq2seq/search.py: the Searcher class with its two decoding    *)
(* loops, greedy_search and beam_search.                                   *)
(*                                                                         *)
(* Tensors are sequences: a [N, L] integer tensor is a sequence of N rows, *)
(* each a sequence of L tokens; a [B, k] tensor is a sequence of B         *)
(* sequences of length k.  Indices are 1-based, so the 1-based index of a  *)
(* token is its 0-based position in the source plus one.                   *)
(*                                                                         *)
(* Log-probabilities are integers: multiples of ln 2.  A row of            *)
(* tf.nn.log_softmax output is a function from the vocabulary to           *)
(* non-positive integers whose powers of two sum to one.  Arithmetic is    *)
(* exact (floating-point rounding is not modelled).                        *)
(*                                                                         *)
(* The scoring model is an opaque pure function of (encoder row, decoder   *)
(* prefix).  Its value is chosen freely the first time a pair is queried   *)
(* and remembered in the variable model, so a repeated query gets the      *)
(* same answer.  An encoder row is abstracted to an identifier.            *)
(***************************************************************************)
EXTENDS Integers, Sequences, FiniteSets, TLC

\* ------------------------------------------------------------- bounds
VocabSize == 3
MaxNegLogProb == 2
MaxBatch == 2
NumEnc == 2
MaxLen == 3
MaxBeam == 3
MaxRows == 4
MaxAlpha == 1
MaxBeta == 1

Vocab == 0..(VocabSize - 1)
LogProbs == (0 - MaxNegLogProb)..0
EncIds == 1..NumEnc

VARIABLES
    max_sequence_length, bos_id, eos_id, pad_id,  \* Searcher.__init__
    model,            \* the scoring model: answers given so far
    calls,            \* the calls still to be made on the searcher
    call,             \* the call in progress (its arguments)
    pc,               \* "idle", "greedy_loop", "beam_loop"
    encoder_input,    \* loop variable of beam_search (replicated in step 1)
    decoder_input,    \* loop variable: [N, L] token buffer
    is_ended,         \* loop variable of greedy_search: [B, 1]
    log_perplexity,   \* loop variable: [B, 1] or [B, k]
    sequence_lengths, \* loop variable of greedy_search: [B, 1]
    model_calls,      \* number of self.model(...) calls of the call in progress
    num_added,        \* history: per element, log-probs added by greedy_search
    results           \* outcomes of the finished calls, in order

vars == <<max_sequence_length, bos_id, eos_id, pad_id, model, calls, call, pc,
          encoder_input, decoder_input, is_ended, log_perplexity,
          sequence_lengths, model_calls, num_added, results>>

config == <<max_sequence_length, bos_id, eos_id, pad_id>>

\* ------------------------------------------------------------ helpers
RECURSIVE Pow(_, _)
Pow(b, e) == IF e <= 0 THEN 1 ELSE b * Pow(b, e - 1)

RECURSIVE SumTo(_, _)
\* sum of f[0] .. f[n]
SumTo(f, n) == IF n < 0 THEN 0 ELSE f[n] + SumTo(f, n - 1)

Min(S) == CHOOSE x \in S : \A y \in S : x <= y

\* tf.fill([n, 1], v) / tf.zeros([n, 1]): n rows holding one v each
Fill(n, v) == [i \in 1..n |-> <<v>>]

\* Repeat as tf.tile would do it: the whole batch k times
RepeatTiled(t, k) == [r \in 1..(Len(t) * k) |-> t[((r - 1) % Len(t)) + 1]]

\* tf.repeat(t, k, axis=0): every row k times, consecutively
Repeat(t, k) == [r \in 1..(Len(t) * k) |-> t[((r - 1) \div k) + 1]]

\* A tensor given entry by entry, computed once (TLC would otherwise
\* recompute an entry every time it is read).
Tensor(f) == f @@ <<>>

\* tf.shape(decoder_input)[1]
Width(t) == IF Len(t) = 0 THEN 0 ELSE Len(t[1])

\* ------------------------------------------------- the scoring model
\* self.model(...) followed by tf.nn.log_softmax: a normalised row
Outputs ==
    {v \in [Vocab -> LogProbs] :
        SumTo([t \in Vocab |-> Pow(2, MaxNegLogProb + v[t])], VocabSize - 1)
            = Pow(2, MaxNegLogProb)}

\* The model's answers for rows (enc[r], dec[r]): any answers that agree
\* with what the model already answered and with each other.
Answers(enc, dec) ==
    {out \in [1..Len(dec) -> Outputs] :
        \A r \in 1..Len(dec) :
            /\ <<enc[r], dec[r]>> \in DOMAIN model
                  => out[r] = model[<<enc[r], dec[r]>>]
            /\ \A s \in 1..Len(dec) :
                  (enc[s] = enc[r] /\ dec[s] = dec[r]) => out[s] = out[r]}

Remember(enc, dec, out) ==
    LET keys == {<<enc[r], dec[r]>> : r \in 1..Len(dec)}
    IN  [q \in DOMAIN model \cup keys |->
            IF q \in DOMAIN model THEN model[q]
            ELSE out[CHOOSE r \in 1..Len(dec) : <<enc[r], dec[r]>> = q]]

\* tf.math.top_k(output, k) on one row: the k tokens of greatest value,
\* greatest first, the lower token first among equals.
TokenRank(v, t) ==
    Cardinality({u \in Vocab : v[u] > v[t] \/ (v[u] = v[t] /\ u < t)})

TopKTokens(v, k) ==
    [j \in 1..k |-> CHOOSE t \in Vocab : TokenRank(v, t) = j - 1]

\* ------------------------------------------------------------- calls
\* Encoder batches.  Encoder rows are named in order of first appearance
\* (the model is arbitrary, so renaming its inputs loses nothing).
Batches ==
    {e \in UNION {[1..B -> EncIds] : B \in 1..MaxBatch} :
        \A i \in 1..Len(e) : \A x \in 1..(e[i] - 1) : \E j \in 1..(i - 1) : e[j] = x}

GreedyCalls ==
    {[fn |-> "greedy", encoder_input |-> e, beam_size |-> 0, alpha |-> 0, beta |-> 0] :
        e \in Batches}

\* beam_search calls: at most MaxRows hypotheses in all, and beam_size within
\* the vocabulary (tf.math.top_k needs k <= VocabSize).
BeamCalls ==
    {c \in
        {[fn |-> "beam", encoder_input |-> e, beam_size |-> k, alpha |-> a, beta |-> b] :
            e \in Batches,
            k \in 0..MaxBeam, a \in 0..MaxAlpha, b \in 0..MaxBeta} :
        /\ Len(c.encoder_input) * c.beam_size <= MaxRows
        /\ c.beam_size <= VocabSize}

NoCall == [fn |-> "none", encoder_input |-> <<>>, beam_size |-> 0, alpha |-> 0, beta |-> 0]

\* one call on a fresh searcher
Scripts == {<<c>> : c \in GreedyCalls \cup BeamCalls}

\* tests/test_search.py: beam_search(encoder_input, 1), then greedy_search
\* on the same searcher and the same encoder_input.
EquivScripts ==
    {<<b, g>> : b \in {c \in BeamCalls : c.beam_size = 1},
                g \in GreedyCalls} \cap
    {s \in Seq(GreedyCalls \cup BeamCalls) :
        Len(s) = 2 /\ s[1].encoder_input = s[2].encoder_input}

InitWith(scripts) ==
    /\ max_sequence_length \in 0..MaxLen
    /\ bos_id \in Vocab
    /\ eos_id \in Vocab
    /\ pad_id \in Vocab
    /\ model = <<>>
    /\ calls \in scripts
    /\ call = NoCall
    /\ pc = "idle"
    /\ encoder_input = <<>>
    /\ decoder_input = <<>>
    /\ is_ended = <<>>
    /\ log_perplexity = <<>>
    /\ sequence_lengths = <<>>
    /\ model_calls = 0
    /\ num_added = <<>>
    /\ results = <<>>

Init == InitWith(Scripts)

\* ----------------------------------------------------- greedy_search
batch_size == Len(call.encoder_input)

GreedyCall ==
    /\ pc = "idle"
    /\ calls # <<>>
    /\ Head(calls).fn = "greedy"
    /\ call' = Head(calls)
    /\ calls' = Tail(calls)
    /\ encoder_input' = Head(calls).encoder_input
    /\ decoder_input' = Fill(Len(Head(calls).encoder_input), bos_id)
    /\ log_perplexity' = Fill(Len(Head(calls).encoder_input), 0)
    /\ sequence_lengths' = Fill(Len(Head(calls).encoder_input), max_sequence_length)
    /\ is_ended' = Fill(Len(Head(calls).encoder_input), FALSE)
    /\ num_added' = [b \in 1..Len(Head(calls).encoder_input) |-> 0]
    /\ model_calls' = 0
    /\ pc' = "greedy_loop"
    /\ UNCHANGED <<config, model, results>>

\* GreedyCond with the loop stopping one token early
GreedyCondOffByOne ==
    /\ Width(decoder_input) + 1 < max_sequence_length
    /\ ~(\A b \in 1..Len(is_ended) : is_ended[b][1])

GreedyCond ==
    /\ Width(decoder_input) < max_sequence_length
    /\ ~(\A b \in 1..Len(is_ended) : is_ended[b][1])

\* GreedyNewToken without the pad_id of ended elements
GreedyNewTokenNoPad(b, v) == TopKTokens(v, 1)[1]

\* the token appended for element b, given the model's row v
GreedyNewToken(b, v) ==
    IF is_ended[b][1] THEN pad_id ELSE TopKTokens(v, 1)[1]

GreedyLogPerplexity(b, v) ==
    IF is_ended[b][1] THEN log_perplexity[b][1]
    ELSE log_perplexity[b][1] + v[TopKTokens(v, 1)[1]]

GreedyIsEnded(b, v) == is_ended[b][1] \/ GreedyNewToken(b, v) = eos_id

\* GreedySequenceLength recording the length before the eos token is appended
GreedySequenceLengthBeforeAppend(b, v) ==
    IF GreedyNewToken(b, v) = eos_id THEN Width(decoder_input)
    ELSE sequence_lengths[b][1]

GreedySequenceLength(b, v) ==
    IF GreedyNewToken(b, v) = eos_id THEN Width(decoder_input) + 1
    ELSE sequence_lengths[b][1]

GreedyBody ==
    /\ pc = "greedy_loop"
    /\ GreedyCond
    /\ \E out \in Answers(encoder_input, decoder_input) :
        /\ model' = Remember(encoder_input, decoder_input, out)
        /\ log_perplexity' =
              [b \in 1..batch_size |-> <<GreedyLogPerplexity(b, out[b])>>]
        /\ is_ended' = [b \in 1..batch_size |-> <<GreedyIsEnded(b, out[b])>>]
        /\ sequence_lengths' =
              [b \in 1..batch_size |-> <<GreedySequenceLength(b, out[b])>>]
        /\ decoder_input' =
              [b \in 1..batch_size |->
                  Append(decoder_input[b], GreedyNewToken(b, out[b]))]
        /\ num_added' =
              [b \in 1..batch_size |->
                  IF is_ended[b][1] THEN num_added[b] ELSE num_added[b] + 1]
    /\ model_calls' = model_calls + 1
    /\ UNCHANGED <<config, calls, call, pc, encoder_input, results>>

\* perplexity = exp(log_perplexity) ^ (-1 / sequence_lengths), kept as the
\* pair it is computed from
Perplexity(lp, n) == [log_prob |-> lp, length |-> n]

GreedyReturn ==
    /\ pc = "greedy_loop"
    /\ ~GreedyCond
    /\ results' = Append(results,
          [fn |-> "greedy", outcome |-> "returned", call |-> call,
           sequences |-> decoder_input,
           perplexity |-> [b \in 1..batch_size |->
               Perplexity(log_perplexity[b][1], sequence_lengths[b][1])],
           model_calls |-> model_calls])
    /\ pc' = "idle"
    /\ UNCHANGED <<config, model, calls, call, encoder_input, decoder_input,
                   is_ended, log_perplexity, sequence_lengths, model_calls,
                   num_added>>

\* ------------------------------------------------------- beam_search
beam_size == call.beam_size

BeamCall ==
    /\ pc = "idle"
    /\ calls # <<>>
    /\ Head(calls).fn = "beam"
    /\ call' = Head(calls)
    /\ calls' = Tail(calls)
    /\ encoder_input' = Head(calls).encoder_input
    /\ decoder_input' = Fill(Len(Head(calls).encoder_input), bos_id)
    /\ log_perplexity' = Fill(Len(Head(calls).encoder_input), 0)
    /\ sequence_lengths' = <<>>
    /\ is_ended' = <<>>
    /\ num_added' = <<>>
    /\ model_calls' = 0
    /\ pc' = "beam_loop"
    /\ UNCHANGED <<config, model, results>>

has_eos(row) == \E i \in 1..Len(row) : row[i] = eos_id

\* ToSequenceLength returning the 0-based index of the first eos
ToSequenceLengthZeroBased(row) ==
    IF ~has_eos(row) THEN Len(row)
    ELSE Min({i \in 1..Len(row) : row[i] = eos_id}) - 1

\* _to_sequence_lengths, on one row
ToSequenceLength(row) ==
    IF ~has_eos(row) THEN Len(row)
    ELSE Min({i \in 1..Len(row) : row[i] = eos_id})

\* BeamCond letting the buffer reach one token more than the cap
BeamCondLate ==
    /\ Width(decoder_input) <= max_sequence_length
    /\ ~(\A r \in 1..Len(decoder_input) : has_eos(decoder_input[r]))

BeamCond ==
    /\ Width(decoder_input) < max_sequence_length
    /\ ~(\A r \in 1..Len(decoder_input) : has_eos(decoder_input[r]))

\* Flat index f of tf.math.top_k's [N, k] result: its row and its column.
ParentRow(f) == ((f - 1) \div beam_size) + 1
ChildCol(f) == ((f - 1) % beam_size) + 1

\* new_tokens after tf.reshape(new_tokens, [-1, 1]), at flat index f
NewToken(out, f) == TopKTokens(out[ParentRow(f)], beam_size)[ChildCol(f)]

\* number of columns of log_probs after tf.reshape(log_probs, [batch_size, -1])
CandWidth == (Len(decoder_input) * beam_size) \div batch_size

\* flat index of entry [b, c] of a [batch_size, CandWidth] tensor
Flat(b, c) == (b - 1) * CandWidth + c

\* log_probs[b, c] after the tf.where on is_end_sequences and the addition
\* of tf.repeat(log_perplexity, beam_size, axis=1)
CandLogProb(out, b, c) ==
    (IF has_eos(decoder_input[ParentRow(Flat(b, c))]) THEN 0
     ELSE out[ParentRow(Flat(b, c))][NewToken(out, Flat(b, c))])
    + log_perplexity[b][((c - 1) \div beam_size) + 1]

BeamFirstStep ==
    /\ pc = "beam_loop"
    /\ BeamCond
    /\ Width(decoder_input) = 1
    /\ \E out \in Answers(encoder_input, decoder_input) :
        /\ model' = Remember(encoder_input, decoder_input, out)
        /\ encoder_input' = Repeat(encoder_input, beam_size)
        /\ decoder_input' =
              [f \in 1..(batch_size * beam_size) |-> <<bos_id, NewToken(out, f)>>]
        /\ log_perplexity' =
              [b \in 1..batch_size |->
                  [c \in 1..CandWidth |-> CandLogProb(out, b, c)]]
    /\ model_calls' = model_calls + 1
    /\ UNCHANGED <<config, calls, call, pc, is_ended, sequence_lengths,
                   num_added, results>>

\* decoder_input[b, c] after the concat and the reshape to
\* [batch_size, beam_size * beam_size, -1]
CandSequence(out, b, c) ==
    Append(decoder_input[ParentRow(Flat(b, c))], NewToken(out, Flat(b, c)))

\* the [batch_size, CandWidth] tensors log_probs and decoder_input
CandLogProbs(out) ==
    Tensor([b \in 1..batch_size |->
        Tensor([c \in 1..CandWidth |-> CandLogProb(out, b, c)])])

CandSequences(out) ==
    Tensor([b \in 1..batch_size |->
        Tensor([c \in 1..CandWidth |-> CandSequence(out, b, c)])])

\* ((1 + length) / (1 + beta)) ^ alpha, as a fraction
LengthPenalty(n) ==
    [num |-> Pow(1 + n, call.alpha), den |-> Pow(1 + call.beta, call.alpha)]

\* log_probs * length_penalty, as a fraction with a positive denominator
Score(lp, n) ==
    [num |-> lp * LengthPenalty(n).num, den |-> LengthPenalty(n).den]

ScoreGreater(x, y) == x.num * y.den > y.num * x.den

\* CandScores ranking by cumulative log-probability alone
CandScoresNoPenalty(lps, seqs) ==
    Tensor([c \in 1..Len(lps) |-> Score(lps[c], 0)])

\* CandScores with the length taken before the new token is appended
CandScoresParentLength(lps, seqs) ==
    Tensor([c \in 1..Len(lps) |->
        Score(lps[c], ToSequenceLength(SubSeq(seqs[c], 1, Len(seqs[c]) - 1)))])

\* log_probs * length_penalty for the candidates of one batch element
CandScores(lps, seqs) ==
    Tensor([c \in 1..Len(lps) |-> Score(lps[c], ToSequenceLength(seqs[c]))])

\* the number of entries tf.math.top_k puts before entry c
ScoreRank(scores, c) ==
    Cardinality({d \in 1..Len(scores) :
        \/ ScoreGreater(scores[d], scores[c])
        \/ (~ScoreGreater(scores[c], scores[d]) /\ d < c)})

\* tf.math.top_k(scores, k=beam_size) indices for one batch element
TopIndices(scores) ==
    Tensor([m \in 1..beam_size |->
        CHOOSE c \in 1..Len(scores) : ScoreRank(scores, c) = m - 1])

\* top_indices: [batch_size, beam_size]
AllTopIndices(lps, seqs) ==
    Tensor([b \in 1..batch_size |-> TopIndices(CandScores(lps[b], seqs[b]))])

\* tf.gather_nd(decoder_input, indices_for_decoder_input)
GatherSequences(seqs, top) ==
    [f \in 1..(batch_size * beam_size) |->
        seqs[ParentRow(f)][top[ParentRow(f)][ChildCol(f)]]]

\* GatherLogProbs keeping the scores of the first beam_size candidates
\* instead of the selected ones
GatherLogProbsUngathered(lps, top) ==
    [b \in 1..batch_size |-> [m \in 1..beam_size |-> lps[b][m]]]

\* tf.gather_nd(log_probs, indices_for_decoder_input), reshaped
GatherLogProbs(lps, top) ==
    [b \in 1..batch_size |-> [m \in 1..beam_size |-> lps[b][top[b][m]]]]

Rerank(lps, seqs, top) ==
    /\ decoder_input' = GatherSequences(seqs, top)
    /\ log_perplexity' = GatherLogProbs(lps, top)

BeamRerankStep ==
    /\ pc = "beam_loop"
    /\ BeamCond
    /\ Width(decoder_input) # 1
    /\ \E out \in Answers(encoder_input, decoder_input) :
        /\ model' = Remember(encoder_input, decoder_input, out)
        /\ Rerank(CandLogProbs(out), CandSequences(out),
                  AllTopIndices(CandLogProbs(out), CandSequences(out)))
    /\ model_calls' = model_calls + 1
    /\ UNCHANGED <<config, calls, call, pc, encoder_input, is_ended,
                   sequence_lengths, num_added, results>>

\* tf.reshape(decoder_input, [batch_size, beam_size, -1]) has a solution
ReshapeOk ==
    /\ beam_size >= 1
    /\ (Len(decoder_input) * Width(decoder_input)) % (batch_size * beam_size) = 0

\* tf.where(tf.sequence_mask(sequence_lengths, ...), decoder_input, pad_id)
Mask(row) ==
    [i \in 1..Len(row) |-> IF i <= ToSequenceLength(row) THEN row[i] ELSE pad_id]

\* row [b, i] of the reshaped decoder_input
Beam(b, i) == decoder_input[(b - 1) * beam_size + i]

\* log_perplexity[b, i], broadcast against sequence_lengths
BeamLogProb(b, i) ==
    IF Len(log_perplexity[b]) = 1 THEN log_perplexity[b][1]
    ELSE log_perplexity[b][i]

\* The code after the loop.  When the final tf.reshape has no solution it
\* raises InvalidArgumentError and the call returns nothing.
BeamReturn ==
    /\ pc = "beam_loop"
    /\ ~BeamCond
    /\ results' = Append(results,
          IF ReshapeOk
          THEN [fn |-> "beam", outcome |-> "returned", call |-> call,
                sequences |-> [b \in 1..batch_size |->
                    [i \in 1..beam_size |-> Mask(Beam(b, i))]],
                perplexity |-> [b \in 1..batch_size |->
                    [i \in 1..beam_size |->
                        Perplexity(BeamLogProb(b, i), ToSequenceLength(Beam(b, i)))]],
                model_calls |-> model_calls]
          ELSE [fn |-> "beam", outcome |-> "error", call |-> call,
                sequences |-> <<>>, perplexity |-> <<>>,
                model_calls |-> model_calls])
    /\ pc' = "idle"
    /\ UNCHANGED <<config, model, calls, call, encoder_input, decoder_input,
                   is_ended, log_perplexity, sequence_lengths, model_calls,
                   num_added>>

Next ==
    \/ GreedyCall
    \/ GreedyBody
    \/ GreedyReturn
    \/ BeamCall
    \/ BeamFirstStep
    \/ BeamRerankStep
    \/ BeamReturn

Spec == Init /\ [][Next]_vars

\* the scenario of tests/test_search.py
InitEquiv == InitWith(EquivScripts)

SpecEquiv == InitEquiv /\ [][Next]_vars

\* One input decoded in a batch and then alone: a call on a batch of two or
\* more rows, then the same call on one of the batch's rows, on the same
\* searcher (so the scoring model is the same function in both).
BatchScripts ==
    UNION {{<<c, [c EXCEPT !.encoder_input = <<c.encoder_input[j]>>]>> :
                j \in 1..Len(c.encoder_input)} :
           c \in {x \in GreedyCalls \cup BeamCalls : Len(x.encoder_input) >= 2}}

InitBatch == InitWith(BatchScripts)

SpecBatch == InitBatch /\ [][Next]_vars

\* ------------------------------------------------------------- claims
\* The hypotheses of a finished call: each with its returned row and the
\* pair its perplexity is computed from.
Hypotheses(res) ==
    IF res.outcome # "returned" THEN {}
    ELSE IF res.fn = "greedy"
    THEN {[b |-> b, i |-> 1, row |-> res.sequences[b], ppl |-> res.perplexity[b]] :
             b \in 1..Len(res.sequences)}
    ELSE {[b |-> x[1], i |-> x[2], row |-> res.sequences[x[1]][x[2]],
           ppl |-> res.perplexity[x[1]][x[2]]] :
             x \in {y \in (1..Len(res.sequences)) \X (1..MaxBeam) :
                       y[2] <= Len(res.sequences[y[1]])}}

Finished == {results[n] : n \in 1..Len(results)}

EosPositions(row) == {p \in 1..Len(row) : row[p] = eos_id}

\* the row of the loop's buffer that hypothesis h of the last call came from
BufferRow(res, h) ==
    IF res.fn = "greedy" THEN decoder_input[h.b]
    ELSE decoder_input[(h.b - 1) * res.call.beam_size + h.i]

\* C1: with max_sequence_length >= 1, for every reserved-id configuration,
\* beam_search with beam_size = 1 returns one beam per batch element whose
\* row equals the greedy_search row and whose perplexity is built from the
\* same cumulative log-probability and the same length.
C1_BeamOneEqualsGreedy ==
    (/\ Len(results) = 2
     /\ max_sequence_length >= 1
     /\ results[1].fn = "beam" /\ results[1].call.beam_size = 1
     /\ results[2].fn = "greedy")
    => /\ results[1].outcome = "returned"
       /\ Len(results[1].sequences) = Len(results[2].sequences)
       /\ \A b \in 1..Len(results[2].sequences) :
            /\ Len(results[1].sequences[b]) = 1
            /\ results[1].sequences[b][1] = results[2].sequences[b]
            /\ results[1].perplexity[b][1] = results[2].perplexity[b]

\* C2: a beam_search call with max_sequence_length >= 1 and
\* 1 <= beam_size <= vocabulary size returns sequences [B, beam_size, L'] and
\* perplexity [B, beam_size], also when the loop runs zero times.
C2_BeamReturnsBeamSizeHypotheses ==
    \A res \in Finished :
        (/\ res.fn = "beam"
         /\ max_sequence_length >= 1
         /\ res.call.beam_size >= 1 /\ res.call.beam_size <= VocabSize)
        => /\ res.outcome = "returned"
           /\ Len(res.sequences) = Len(res.call.encoder_input)
           /\ Len(res.perplexity) = Len(res.call.encoder_input)
           /\ \A b \in 1..Len(res.sequences) :
                /\ Len(res.sequences[b]) = res.call.beam_size
                /\ Len(res.perplexity[b]) = res.call.beam_size

\* C3 (as stated): in every returned row, every token strictly after the
\* row's first eos token equals pad_id.
C3_PadAfterFirstEos ==
    \A res \in Finished : \A h \in Hypotheses(res) :
        \A p \in EosPositions(h.row) : \A q \in (p + 1)..Len(h.row) :
            h.row[q] = pad_id

\* C3 (amended): in every returned row, every token strictly after the first
\* eos token that was emitted (the first eos after the leading bos position)
\* equals pad_id.
C3_PadAfterFirstEmittedEos ==
    \A res \in Finished : \A h \in Hypotheses(res) :
        \A p \in EosPositions(h.row) \ {1} : \A q \in (p + 1)..Len(h.row) :
            h.row[q] = pad_id

\* a beam_search call returned a row whose emitted eos is followed by a
\* position that the model had filled with a token other than pad_id
C3_Witness ==
    /\ pc = "idle" /\ Len(results) = 1
    /\ results[1].fn = "beam" /\ results[1].outcome = "returned"
    /\ \E h \in Hypotheses(results[1]) :
          /\ h.row[1] # eos_id
          /\ \E p \in EosPositions(h.row) : p < Len(h.row)
          /\ Beam(h.b, h.i) # h.row

\* C4: with max_sequence_length >= 1, every returned hypothesis either holds
\* an eos token at a position <= max_sequence_length, or its perplexity
\* length and its row length equal max_sequence_length and its row is the
\* loop's buffer row unchanged (not truncated, not padded).
C4_EosOrFullLength ==
    (max_sequence_length >= 1 /\ pc = "idle" /\ Len(results) = 1)
    => \A h \in Hypotheses(results[1]) :
          \/ \E p \in EosPositions(h.row) : p <= max_sequence_length
          \/ /\ h.ppl.length = max_sequence_length
             /\ Len(h.row) = max_sequence_length
             /\ h.row = BufferRow(results[1], h)

\* a call returned a hypothesis of two or more tokens that never emitted eos
C4_Witness ==
    /\ pc = "idle" /\ Len(results) = 1
    /\ max_sequence_length >= 2
    /\ \E h \in Hypotheses(results[1]) :
          /\ EosPositions(h.row) = {}
          /\ Len(h.row) = max_sequence_length

\* C5: in greedy_search, for every reserved-id configuration, an ended
\* element stays ended and every later iteration leaves its cumulative
\* log-probability and its recorded sequence length unchanged.
C5_EndedIsFrozen ==
    [][(pc = "greedy_loop" /\ pc' = "greedy_loop")
        => \A b \in 1..Len(is_ended) :
              is_ended[b][1]
              => /\ is_ended'[b][1]
                 /\ log_perplexity'[b] = log_perplexity[b]
                 /\ sequence_lengths'[b] = sequence_lengths[b]]_vars

\* C6: a call with max_sequence_length <= 0, or a beam_search call with
\* beam_size < 1, ends in an error before any scoring-model call and returns
\* no result.
C6_InvalidConfigurationFailsFast ==
    \A res \in Finished :
        (max_sequence_length <= 0 \/ (res.fn = "beam" /\ res.call.beam_size < 1))
        => (res.outcome = "error" /\ res.model_calls = 0)

\* the penalized score of stored beam i of batch element b
BeamScore(b, i) == Score(log_perplexity[b][i], ToSequenceLength(Beam(b, i)))

\* beam_search has run at least one iteration with two or more beams
BeamsKept ==
    /\ pc = "beam_loop"
    /\ beam_size >= 2
    /\ Width(decoder_input) >= 2

\* C7: in beam_search with beam_size >= 2, after every iteration the beams
\* kept for each batch element are stored in non-increasing order of
\* cumulative_log_probability * ((1 + length) / (1 + beta)) ^ alpha.
C7_BeamsInScoreOrder ==
    BeamsKept
    => \A b \in 1..batch_size : \A i \in 1..(beam_size - 1) :
          ~ScoreGreater(BeamScore(b, i + 1), BeamScore(b, i))

\* after a re-ranking step under a length penalty that is in force, the
\* first of an element's beams has a greater score than the last
C7_Witness ==
    /\ BeamsKept
    /\ call.alpha >= 1
    /\ Width(decoder_input) >= 3
    /\ \E b \in 1..batch_size :
          ScoreGreater(BeamScore(b, 1), BeamScore(b, beam_size))

\* C8: with max_sequence_length >= 1, every returned hypothesis has a
\* perplexity length >= 1 and a cumulative log-probability <= 0, so that
\* -log_prob / length >= 0.
C8_PerplexityAtLeastOne ==
    max_sequence_length >= 1
    => \A res \in Finished : \A h \in Hypotheses(res) :
          /\ h.ppl.length >= 1
          /\ h.ppl.log_prob <= 0
          /\ (0 - h.ppl.log_prob) * h.ppl.length >= 0

\* a beam_search call returned a hypothesis whose length is that of its
\* first eos and whose cumulative log-probability is negative
C8_Witness ==
    /\ max_sequence_length >= 1
    /\ \E res \in Finished : \E h \in Hypotheses(res) :
          /\ res.fn = "beam"
          /\ h.ppl.log_prob < 0
          /\ h.ppl.length < Len(h.row)

\* element b emits its first eos in this iteration of greedy_search
FirstEos(b) ==
    /\ pc = "greedy_loop" /\ pc' = "greedy_loop"
    /\ ~is_ended[b][1]
    /\ is_ended'[b][1]

\* C9 (as stated): the sequence length recorded when an element first emits
\* eos excludes bos: it is the number of log-probabilities added to the
\* element's cumulative log-probability.
C9_LengthExcludesBos ==
    [][\A b \in 1..Len(is_ended) :
          FirstEos(b) => sequence_lengths'[b][1] = num_added'[b]]_vars

\* C9 (amended): the sequence length recorded when an element first emits
\* eos counts the tokens up to and including eos and the bos token: it is
\* the buffer length, one more than the number of log-probabilities added.
C9_LengthIncludesBos ==
    [][\A b \in 1..Len(is_ended) :
          FirstEos(b)
          => /\ sequence_lengths'[b][1] = num_added'[b] + 1
             /\ sequence_lengths'[b][1] = Len(decoder_input'[b])]_vars

\* an element of greedy_search has ended after two added log-probabilities
C9_Witness ==
    /\ pc = "greedy_loop"
    /\ \E b \in 1..Len(is_ended) :
          /\ is_ended[b][1]
          /\ num_added[b] = 2
          /\ sequence_lengths[b][1] = 3

\* a row up to and including its first eos
UpToEos(row) == SubSeq(row, 1, ToSequenceLength(row))

\* C10: in beam_search with beam_size >= 2, after every iteration the beams
\* kept for a batch element are pairwise distinct as token sequences up to
\* their first eos (an ended beam takes at most one slot), and so are the
\* returned beams.
C10_BeamsDistinct ==
    /\ BeamsKept
       => \A b \in 1..batch_size : \A i, j \in 1..beam_size :
             i # j => UpToEos(Beam(b, i)) # UpToEos(Beam(b, j))
    /\ \A res \in Finished : \A g, h \in Hypotheses(res) :
          (res.fn = "beam" /\ res.call.beam_size >= 2 /\ g.b = h.b /\ g.i # h.i)
          => g.row # h.row

\* the hypotheses of batch element b in a finished call
HypothesesOf(res, b) == {h \in Hypotheses(res) : h.b = b}

\* what the claim compares: the beam index, the tokens up to the first eos
\* (or all of them) and the perplexity
Decoded(h) == [i |-> h.i, tokens |-> UpToEos(h.row), ppl |-> h.ppl]

\* C11: the hypotheses returned for an input (tokens up to the first eos or
\* full length, and perplexity) are the same whether the input is decoded in
\* a batch with other inputs or alone.
C11_BatchIndependence ==
    Len(results) = 2
    => /\ results[1].outcome = results[2].outcome
       /\ \A b \in 1..Len(results[1].call.encoder_input) :
            results[1].call.encoder_input[b] = results[2].call.encoder_input[1]
            => {Decoded(h) : h \in HypothesesOf(results[1], b)}
                 = {Decoded(h) : h \in HypothesesOf(results[2], 1)}

RECURSIVE PathLogProb(_, _, _)
\* the sum of the model's log-probabilities of the tokens of row at positions
\* 2..p, each given encoder row enc and the tokens before it
PathLogProb(enc, row, p) ==
    IF p < 2 THEN 0
    ELSE model[<<enc, SubSeq(row, 1, p - 1)>>][row[p]] + PathLogProb(enc, row, p - 1)

\* beam_search has run at least one iteration
BeamsStored == pc = "beam_loop" /\ model_calls >= 1

\* C12: after every iteration of beam_search, the stored cumulative
\* log-probability of beam (b, i) is the sum of the model's log-probabilities
\* of that beam's own tokens after bos, up to and including its first eos (all
\* of them if it has none), scored against encoder input b.
C12_BeamScoreIsOwnPath ==
    BeamsStored
    => \A b \in 1..batch_size : \A i \in 1..beam_size :
          log_perplexity[b][i] =
              PathLogProb(call.encoder_input[b], Beam(b, i),
                          ToSequenceLength(Beam(b, i)))

\* after a re-ranking step on a batch of two different inputs, the second
\* input holds an ended beam with a token after its eos and a live beam
C12_Witness ==
    /\ BeamsStored
    /\ batch_size = 2 /\ beam_size = 2
    /\ call.encoder_input[1] # call.encoder_input[2]
    /\ Width(decoder_input) >= 3
    /\ \E i, j \in 1..beam_size :
          /\ ToSequenceLength(Beam(2, i)) < Len(Beam(2, i))
          /\ ~has_eos(Beam(2, j))

\* a search loop is in progress
InLoop == pc = "greedy_loop" \/ pc = "beam_loop"

\* every hypothesis of the loop in progress has ended
AllEnded ==
    IF pc = "greedy_loop" THEN \A b \in 1..Len(is_ended) : is_ended[b][1]
    ELSE \A r \in 1..Len(decoder_input) : has_eos(decoder_input[r])

\* the greatest number of iterations a call may run
MaxIterations == IF max_sequence_length >= 1 THEN max_sequence_length - 1 ELSE 0

\* the loop in progress can take its next step: the body when the loop
\* condition holds (the scoring model answers), the return when it does not
StepPossible ==
    (IF pc = "greedy_loop" THEN GreedyCond ELSE BeamCond)
    => Answers(encoder_input, decoder_input) # {}

\* C13: every call terminates: its loop runs at most max_sequence_length - 1
\* iterations (none when max_sequence_length < 1), a call in progress can
\* always take a step, and each iteration makes one scoring-model call and
\* extends every hypothesis buffer by exactly one token; the loop stops as
\* soon as the buffer length reaches max_sequence_length or every hypothesis
\* has ended; returned rows hold at most max_sequence_length + 1 tokens.
C13_Terminates ==
    /\ [](model_calls <= MaxIterations)
    /\ [](InLoop => StepPossible)
    /\ [][(InLoop /\ pc' = pc)
            => /\ model_calls' = model_calls + 1
               /\ \A r \in 1..Len(decoder_input') :
                     Len(decoder_input'[r]) = Width(decoder_input) + 1]_vars
    /\ [][(InLoop /\ (Width(decoder_input) >= max_sequence_length \/ AllEnded))
            => pc' = "idle"]_vars
    /\ [](\A res \in Finished : \A h \in Hypotheses(res) :
              Len(h.row) <= max_sequence_length + 1)

\* a beam_search call has returned after max_sequence_length - 1 = 2
\* iterations with hypotheses that never ended
C13_Witness ==
    /\ pc = "idle" /\ calls = <<>> /\ Len(results) = 1
    /\ results[1].fn = "beam" /\ results[1].outcome = "returned"
    /\ max_sequence_length = 3
    /\ results[1].model_calls = 2
    /\ \E h \in Hypotheses(results[1]) : EosPositions(h.row) = {}

\* the pairs (parent beam, child) naming the candidates of a batch element
CandidateIds == (1..beam_size) \X (1..beam_size)

\* In a re-ranking step, candidate x of batch element b: parent beam x[1]
\* extended by the token the model (as it answers in this step) ranks x[2]-th
\* after the parent, with its cumulative log-probability and its score.
Candidate(b, x) ==
    LET parent == Beam(b, x[1])
        v == model'[<<call.encoder_input[b], parent>>]
        tok == TopKTokens(v, beam_size)[x[2]]
        lp == log_perplexity[b][x[1]] + (IF has_eos(parent) THEN 0 ELSE v[tok])
    IN  [seq |-> Append(parent, tok), lp |-> lp,
         score |-> Score(lp, ToSequenceLength(Append(parent, tok)))]

\* this step is a re-ranking step of beam_search
IsRerankStep ==
    /\ pc = "beam_loop" /\ pc' = "beam_loop"
    /\ Width(decoder_input) >= 2
    /\ model_calls' = model_calls + 1

\* the candidates of batch element b in a re-ranking step
Candidates(b) == {Candidate(b, x) : x \in CandidateIds}

\* the beams of batch element b after the step
NewBeam(b, m) == decoder_input'[(b - 1) * beam_size + m]

\* C14: in every re-ranking step, for each batch element the
\* beam_size * beam_size candidates are different token sequences, the new
\* beams are beam_size different candidates, each with its own cumulative
\* log-probability, and no discarded candidate has a strictly greater product
\* cumulative_log_probability * ((1 + length) / (1 + beta)) ^ alpha than a
\* kept one, length being the position of the candidate's first eos or its
\* full length.
C14_KeepsBestCandidates ==
    [][IsRerankStep
        => \A b \in 1..batch_size : \A cands \in {Candidates(b)} :
              /\ Cardinality({c.seq : c \in cands}) = beam_size * beam_size
              /\ \A m, n \in 1..beam_size : m # n => NewBeam(b, m) # NewBeam(b, n)
              /\ \A m \in 1..beam_size : \E k \in cands :
                    /\ NewBeam(b, m) = k.seq
                    /\ log_perplexity'[b][m] = k.lp
                    /\ \A c \in cands :
                          (\A n \in 1..beam_size : NewBeam(b, n) # c.seq)
                          => ~ScoreGreater(c.score, k.score)]_vars

\* after a re-ranking step with two beams, the beams kept for a batch
\* element descend from two different parents
C14_Witness ==
    /\ pc = "beam_loop" /\ model_calls = 2 /\ beam_size = 2
    /\ \E b \in 1..batch_size :
          SubSeq(Beam(b, 1), 1, 2) # SubSeq(Beam(b, 2), 1, 2)

\* this step is the first iteration of beam_search
IsFirstStep ==
    /\ pc = "beam_loop" /\ pc' = "beam_loop"
    /\ Width(decoder_input) = 1
    /\ model_calls' = model_calls + 1

\* the model's answer, in this step, for batch element b after bos alone
FirstOutput(b) == model'[<<call.encoder_input[b], <<bos_id>>>>]

\* C15: after the first iteration of beam_search each batch element b has
\* exactly beam_size beams [bos, t_j], the t_j being different tokens in
\* non-increasing order of log-probability with no other token more probable than
\* the last of them; the cumulative log-probability of beam j is the
\* log-probability of t_j; and row (b, j) of the replicated encoder input is
\* the encoder input of b.
C15_FirstStepTopK ==
    [][IsFirstStep
        => /\ Len(decoder_input') = batch_size * beam_size
           /\ Len(encoder_input') = batch_size * beam_size
           /\ Len(log_perplexity') = batch_size
           /\ \A b \in 1..batch_size : \A v \in {FirstOutput(b)} :
                 /\ Len(log_perplexity'[b]) = beam_size
                 /\ \A j \in 1..beam_size : \A row \in {NewBeam(b, j)} :
                       /\ Len(row) = 2 /\ row[1] = bos_id /\ row[2] \in Vocab
                       /\ log_perplexity'[b][j] = v[row[2]]
                       /\ encoder_input'[(b - 1) * beam_size + j]
                             = call.encoder_input[b]
                       /\ \A i \in 1..(j - 1) :
                             /\ NewBeam(b, i)[2] # row[2]
                             /\ v[NewBeam(b, i)[2]] >= v[row[2]]
                       /\ \A u \in Vocab :
                             (\A i \in 1..beam_size : NewBeam(b, i)[2] # u)
                             => v[u] <= v[row[2]]]_vars

\* after the first iteration on a batch of two different inputs with two
\* beams each, the two inputs have different best first tokens
C15_Witness ==
    /\ pc = "beam_loop" /\ model_calls = 1
    /\ batch_size = 2 /\ beam_size = 2
    /\ call.encoder_input[1] # call.encoder_input[2]
    /\ Beam(1, 1) # Beam(2, 1)
    /\ encoder_input = <<call.encoder_input[1], call.encoder_input[1],
                          call.encoder_input[2], call.encoder_input[2]>>

=============================================================================
